---- MODULE Spec2Model ----
(***************************************************************************)
(* Tubez protocol engine: the frame handler (FrameHandler::handle_frame),   *)
(* the tube-manager table it mutates, the per-tube TubeManager state, the   *)
(* outbound sink, and the Tube / Channel facade that drives them.           *)
(*                                                                          *)
(* handle_frame is modelled one critical section per step: every section    *)
(* taken under the table lock or under a per-tube manager lock is one       *)
(* atomic action, and so is every write to the outbound sink (made under    *)
(* the sink's async lock).  Tasks of the worker pool interleave between     *)
(* those sections.                                                          *)
(*                                                                          *)
(* Specifications:                                                          *)
(*   Spec    - one handler (either role) fed arbitrary frames, with the     *)
(*             local facade operations of that peer interleaved;            *)
(*   SpecNet - a client and a server whose sinks are each other's inbound   *)
(*             stream (reliable, in order), frames produced by the facade.  *)
(*   SpecChannel - successive Channel::make_tube calls on one client        *)
(*             channel, from a fresh channel or one about to wrap its id.   *)
(*   SpecCodec - a Decoder fed, in chunks of any size, the encoding of a    *)
(*             sequence of frames.                                          *)
(*   SpecLive - Spec restricted to the frames that enqueue events, with     *)
(*             weakly fair consumers polling the tubes.                     *)
(*   SpecMachine - successive StateMachine::transition_to calls on one      *)
(*             event-tag machine of tube_event.rs.                          *)
(***************************************************************************)
EXTENDS Integers, Sequences, FiniteSets, TLC

\* ------------------------------------------------------------------ bounds
MaxMgrs   == 2   \* TubeManager objects ever allocated by one peer
MaxFrames == 3   \* inbound frames one handler takes
MaxSends  == 1   \* Payload frames one peer's facade transmits
MaxAcks   == 1   \* ack ids one tube allocates
MaxCalls  == 4   \* Channel::make_tube calls followed on one channel
MaxStream == 2   \* frames in the byte stream a decoder is fed
MaxLiveFrames == 3   \* frames handed to a handler whose consumers are fair
MaxTransitions == 4   \* StateMachine::transition_to calls on one machine

\* ------------------------------------------------------------- vocabulary
Peers == {"Client", "Server"}

Other(p) == IF p = "Client" THEN "Server" ELSE "Client"

\* the tube ids in play (client-originated ids are even)
TubeIds == {0}

AckIds == 0 .. (MaxAcks - 1)

\* Option<u16>: the empty set is None, {a} is Some(a)
AckOpts == {{}} \cup {{a} : a \in AckIds}

Datas == {"A", "B"}

AbortReason == {"Unknown", "ApplicationError"}

\* frame::Frame
NewTubeFrame(t) == [type |-> "NewTube", tube_id |-> t]

PayloadFrame(t, a, d) == [type |-> "Payload", tube_id |-> t, ack_id |-> a, data |-> d]

PayloadAckFrame(t, a) == [type |-> "PayloadAck", tube_id |-> t, ack_id |-> a]

ClientHasFinishedSendingFrame(t) == [type |-> "ClientHasFinishedSending", tube_id |-> t]

ServerHasFinishedSendingFrame(t) == [type |-> "ServerHasFinishedSending", tube_id |-> t]

AbortFrame(t, r) == [type |-> "Abort", tube_id |-> t, reason |-> r]

AbortAckFrame(t) == [type |-> "AbortAck", tube_id |-> t]

DrainFrame == [type |-> "Drain"]

Frames ==
    {NewTubeFrame(t) : t \in TubeIds}
    \cup {PayloadFrame(t, a, d) : t \in TubeIds, a \in AckOpts, d \in Datas}
    \cup {PayloadAckFrame(t, a) : t \in TubeIds, a \in AckIds}
    \cup {ClientHasFinishedSendingFrame(t) : t \in TubeIds}
    \cup {ServerHasFinishedSendingFrame(t) : t \in TubeIds}
    \cup {AbortFrame(t, r) : t \in TubeIds, r \in AbortReason}
    \cup {AbortAckFrame(t) : t \in TubeIds}
    \cup {DrainFrame}

\* the payloads and reasons the local application passes to the facade; SpecNet
\* follows scenarios S1..S3 (one payload value, abort(ApplicationError))
AppDatas(w) == IF w THEN {"A"} ELSE Datas

AppReasons(w) == IF w THEN {"ApplicationError"} ELSE AbortReason

\* tube::TubeCompletionState
Open == [st |-> "Open"]

ClientHasFinishedSending == [st |-> "ClientHasFinishedSending"]

ServerHasFinishedSending == [st |-> "ServerHasFinishedSending"]

Closed == [st |-> "Closed"]

AbortedFromLocal(r) == [st |-> "AbortedFromLocal", reason |-> r]

AbortedFromRemote(r) == [st |-> "AbortedFromRemote", reason |-> r]

\* tube::TubeEvent, the variants the handler enqueues
PayloadEvent(d) == [tag |-> "Payload", data |-> d]

ClientHasFinishedSendingEvent == [tag |-> "ClientHasFinishedSending"]

ServerHasFinishedSendingEvent == [tag |-> "ServerHasFinishedSending"]

AbortEvent(r) == [tag |-> "Abort", reason |-> r]

\* tube::TubeManager::new()
NewTubeManager(t) ==
    [tube_id |-> t,
     completion_state |-> Open,
     pending_events |-> << >>,
     sendacks |-> [a \in AckIds |-> "absent"],
     waker |-> FALSE,
     abort_pending_id_reservation |-> FALSE,
     ack_id_counter |-> 0]

\* Result<FrameHandlerResult, FrameHandlerError>
NoResult == [kind |-> "None"]

FullyHandled == [kind |-> "FullyHandled"]

NewTubeResult(m) == [kind |-> "NewTube", tube |-> m]

Err(kind) == [kind |-> kind]

ErrTube(kind, t) == [kind |-> kind, tube_id |-> t]

ErrAck(t, a) == [kind |-> "UntrackedAckId", tube_id |-> t, ack_id |-> a]

ErrFrame(f) == [kind |-> "UntrackedTubeId", frame |-> f]

IsErr(r) == r.kind \notin {"None", "FullyHandled", "NewTube"}

\* ------------------------------------------------------------------ state
VARIABLES
    active,           \* peers whose tasks run (Spec: one role; SpecNet: both)
    wired,            \* TRUE when each handler reads the other peer's sink
    tube_managers,    \* per peer: tube_id -> index into mgrs, 0 = no entry
    mgrs,             \* per peer: the TubeManager objects allocated so far
    sink,             \* per peer: frames written to its outbound sink, not yet taken
    h,                \* per peer: the handle_frame call in progress
    nframes,          \* per peer: frames taken by the handler
    nsends,           \* per peer: Payload frames the facade has sent
    tube_id_counter,  \* Channel::tube_id_counter (client)
    delivered,        \* history: events poll_next returned, per manager
    enqueued,         \* history: events the handler enqueued, per manager
    local_abort,      \* history: per manager, the state Tube::abort was called in
    chan,             \* SpecChannel: the Channel of channel.rs and its call log
    codec,            \* SpecCodec: a Decoder and the byte stream it is fed
    state_machine     \* SpecMachine: a StateMachine of tube_event.rs and its calls

\* the variables of the specifications that do not run the frame handler
auxvars == <<chan, codec, state_machine>>

\* the variables of the frame handler and of the facade around it
corevars == <<active, wired, tube_managers, mgrs, sink, h, nframes, nsends,
              tube_id_counter, delivered, enqueued, local_abort>>

vars == <<active, wired, tube_managers, mgrs, sink, h, nframes, nsends,
          tube_id_counter, delivered, enqueued, local_abort, auxvars>>

IdleHandler == [pc |-> "idle", frame |-> DrainFrame, mgr |-> 0,
                result |-> NoResult, wrote |-> << >>, held |-> {}]

InitCommon ==
    /\ tube_managers = [p \in Peers |-> [t \in TubeIds |-> 0]]
    /\ mgrs = [p \in Peers |-> << >>]
    /\ sink = [p \in Peers |-> << >>]
    /\ h = [p \in Peers |-> IdleHandler]
    /\ nframes = [p \in Peers |-> 0]
    /\ nsends = [p \in Peers |-> 0]
    /\ tube_id_counter = 0
    /\ delivered = [p \in Peers |-> [m \in 1 .. (MaxMgrs + 1) |-> << >>]]
    /\ enqueued = [p \in Peers |-> [m \in 1 .. (MaxMgrs + 1) |-> << >>]]
    /\ local_abort = [p \in Peers |-> [m \in 1 .. (MaxMgrs + 1) |-> "none"]]

\* ------------------------------------------------- the event-tag machine
\* (tube_event.rs) TubeEventTag
TubeEventTag ==
    {"Abort", "Uninitialized", "AuthenticatedAndReady", "Payload",
     "ClientHasFinishedSending", "StreamError", "ServerHasFinishedSending",
     "ServerMustDrain"}

\* fault for C27: a drain reason exists, so a ServerMustDrain event can be built
DrainReason_inhabited == {"Requested"}

\* pub enum DrainReason {}: the enum has no variant and so no value
DrainReason == {}

\* TubeEvent_StreamError: InvalidTubeEventTransition(..) and ServerError(..),
\* whose payloads transition_to never reads
StreamErrors == {"InvalidTubeEventTransition", "ServerError"}

AuthenticatedAndReadyEvent == [tag |-> "AuthenticatedAndReady"]

StreamErrorEvent(e) == [tag |-> "StreamError", error |-> e]

ServerMustDrainEvent(r) == [tag |-> "ServerMustDrain", reason |-> r]

\* the values of TubeEvent: what a caller of transition_to can pass
TubeEvent ==
    {AbortEvent(r) : r \in AbortReason}
      \cup {AuthenticatedAndReadyEvent, ClientHasFinishedSendingEvent,
            ServerHasFinishedSendingEvent}
      \cup {PayloadEvent(d) : d \in Datas}
      \cup {StreamErrorEvent(e) : e \in StreamErrors}
      \cup {ServerMustDrainEvent(r) : r \in DrainReason}

\* impl From<&TubeEvent> for TubeEventTag: the variant, without its payload
TubeEventTag_from(event) ==
    CASE event \in {AbortEvent(r) : r \in AbortReason} -> "Abort"
      [] event = AuthenticatedAndReadyEvent -> "AuthenticatedAndReady"
      [] event \in {PayloadEvent(d) : d \in Datas} -> "Payload"
      [] event = ClientHasFinishedSendingEvent -> "ClientHasFinishedSending"
      [] event \in {StreamErrorEvent(e) : e \in StreamErrors} -> "StreamError"
      [] event \in {ServerMustDrainEvent(r) : r \in DrainReason} -> "ServerMustDrain"
      [] event = ServerHasFinishedSendingEvent -> "ServerHasFinishedSending"

\* StateMachineTransitionResult
Valid == [kind |-> "Valid"]

Invalid(prev, next) == [kind |-> "Invalid", prev |-> prev, next |-> next]

\* fault for C25: the (Abort, _) arm is missing
abort_is_final_never(prev) == FALSE

\* the first arm of the match: (Abort, _)
abort_is_final(prev) == prev = "Abort"

\* the arms that name both tags (lines 90-120)
valid_arm(prev, next) ==
    \/ prev = "Uninitialized" /\ next = "AuthenticatedAndReady"
    \/ /\ prev = "AuthenticatedAndReady"
       /\ next \in {"Payload", "ClientHasFinishedSending", "StreamError",
                    "ServerHasFinishedSending", "ServerMustDrain"}
    \/ /\ prev = "Payload"
       /\ next \in {"Payload", "ClientHasFinishedSending", "StreamError",
                    "ServerHasFinishedSending", "ServerMustDrain"}
    \/ /\ prev = "ClientHasFinishedSending"
       /\ next \in {"StreamError", "ServerHasFinishedSending", "ServerMustDrain"}
    \/ /\ prev = "ServerMustDrain"
       /\ next \in {"Payload", "ClientHasFinishedSending",
                    "ServerHasFinishedSending", "StreamError"}

\* fault for C26: the fallthrough arm records the rejected tag
fallthrough_sets_prev(prev, next) ==
    [prev_event_tag |-> next, result |-> Invalid(prev, next)]

\* the fallthrough arm (_, _): Invalid(prev, next), prev_event_tag untouched
fallthrough(prev, next) ==
    [prev_event_tag |-> prev, result |-> Invalid(prev, next)]

\* StateMachine::transition_to: the new prev_event_tag and the result
transition_to(prev, next_event) ==
    LET next == TubeEventTag_from(next_event)
    IN IF abort_is_final(prev)
       THEN [prev_event_tag |-> prev, result |-> Invalid(prev, next)]
       ELSE IF next = "Abort" \/ valid_arm(prev, next)
       THEN [prev_event_tag |-> next, result |-> Valid]
       ELSE fallthrough(prev, next)

\* StateMachine::new, with the history of the calls made on the machine:
\* the event and the result of the last call, the tags accepted so far
NewStateMachine ==
    [prev_event_tag |-> "Uninitialized", calls |-> 0,
     event |-> AuthenticatedAndReadyEvent, result |-> Valid, accepted |-> << >>]

\* one call of transition_to, with any event
TransitionTo ==
    /\ state_machine.calls < MaxTransitions
    /\ \E ev \in TubeEvent :
         LET r == transition_to(state_machine.prev_event_tag, ev)
         IN state_machine' =
              [prev_event_tag |-> r.prev_event_tag,
               calls |-> state_machine.calls + 1,
               event |-> ev,
               result |-> r.result,
               accepted |-> IF r.result = Valid
                            THEN Append(state_machine.accepted, TubeEventTag_from(ev))
                            ELSE state_machine.accepted]
    /\ UNCHANGED <<corevars, chan, codec>>

\* tube ids and the Channel counter are u16
U16 == 65536

\* Channel::new: Channel { body_sender, tube_id_counter: 0, tubes: HashMap::new() }
\* (log: the outcome of every make_tube call since Init; start: the counter at
\* Init; panicked: a make_tube call unwound)
NewChannel ==
    [tube_id_counter |-> 0, tubes |-> {}, log |-> << >>, start |-> 0,
     panicked |-> FALSE]

\* the channels SpecChannel starts from: a fresh one, and one that has made
\* U16 / 2 - 2 calls (its counter is two calls from the top of u16), of which
\* any may have succeeded; of its table only the ids the next calls can come
\* back to are followed
ChannelStates ==
    {NewChannel}
    \cup {[NewChannel EXCEPT !.tube_id_counter = U16 - 4, !.start = U16 - 4,
                             !.tubes = live] : live \in SUBSET {0, 2}}

\* ------------------------------------------------- codec (frame encoding)
\* a u16 field, big-endian
be16(n) == <<n \div 256, n % 256>>

\* the u16 at bytes i, i + 1 of b
u16_at(b, i) == b[i] * 256 + b[i + 1]

\* bytes i .. of b
from_byte(b, i) == SubSeq(b, i, Len(b))

\* Frame::NewTube { tube_id, headers }; headers is a map name -> value
NewTubeFrameWith(t, headers) == [type |-> "NewTube", tube_id |-> t, headers |-> headers]

\* HashMap::new()
EmptyHeaders == [n \in {} |-> n]

\* the map a sequence of (name, value) entries builds, a later entry replacing
\* an earlier one of the same name
RECURSIVE headers_of(_)
headers_of(hs) ==
    IF hs = << >> THEN EmptyHeaders
    ELSE (hs[Len(hs)][1] :> hs[Len(hs)][2]) @@ headers_of(SubSeq(hs, 1, Len(hs) - 1))

\* the entries of a header block, each u16 name_len, name, u16 value_len, value
RECURSIVE encode_entries(_)
encode_entries(hs) ==
    IF hs = << >> THEN << >>
    ELSE be16(Len(hs[1][1])) \o hs[1][1] \o be16(Len(hs[1][2])) \o hs[1][2]
         \o encode_entries(Tail(hs))

\* AbortReason on the wire: 0x00 Unknown, 0x01 ApplicationError
reason_byte(r) == IF r = "ApplicationError" THEN 1 ELSE 0

\* remaining byte values are reserved and decode as Unknown
reason_of(b) == IF b = 1 THEN "ApplicationError" ELSE "Unknown"

\* fault for C12: the encoder writes ack_flag = 1 and no ack_id for a Payload
\* without ack
payload_body_flag_set(t, a, d) ==
    IF a = {} THEN be16(t) \o <<1>> \o d
    ELSE be16(t) \o <<1>> \o be16(CHOOSE x \in a : TRUE) \o d

\* encode::payload_frame body: tube_id, ack_flag, ack_id iff ack_flag = 1, data
payload_body(t, a, d) ==
    IF a = {} THEN be16(t) \o <<0>> \o d
    ELSE be16(t) \o <<1>> \o be16(CHOOSE x \in a : TRUE) \o d

\* 1-byte tag, 2-byte big-endian body length, body; a body over 65535 bytes
\* fails with BodyTooLarge
encode_frame(tag, body) ==
    IF Len(body) > U16 - 1 THEN [err |-> "BodyTooLarge"]
    ELSE [bytes |-> <<tag>> \o be16(Len(body)) \o body]

\* encode::newtube_frame, the map iterated in the order hs
newtube_frame(t, hs) == encode_frame(0, be16(t) \o be16(Len(hs)) \o encode_entries(hs))

\* the encoder of every other variant
encode(f) ==
    CASE f.type = "Payload" -> encode_frame(1, payload_body(f.tube_id, f.ack_id, f.data))
      [] f.type = "PayloadAck" -> encode_frame(2, be16(f.tube_id) \o be16(f.ack_id))
      [] f.type = "ClientHasFinishedSending" -> encode_frame(3, be16(f.tube_id))
      [] f.type = "ServerHasFinishedSending" -> encode_frame(4, be16(f.tube_id))
      [] f.type = "Abort" -> encode_frame(5, be16(f.tube_id) \o <<reason_byte(f.reason)>>)
      [] f.type = "AbortAck" -> encode_frame(6, be16(f.tube_id))
      [] f.type = "Drain" -> encode_frame(7, << >>)

\* ------------------------------------------------- codec (frame decoding)
Malformed(tag, field) == [ok |-> FALSE, err |-> "MalformedFrame", tag |-> tag, field |-> field]

Parsed(f) == [ok |-> TRUE, frame |-> f]

\* the entries of a header block: count entries from byte i of the body
RECURSIVE parse_entries(_, _, _, _)
parse_entries(b, i, count, acc) ==
    IF count = 0
    THEN IF i = Len(b) + 1 THEN [ok |-> TRUE, headers |-> acc]
         ELSE Malformed(0, "headers")
    ELSE IF i + 1 > Len(b) THEN Malformed(0, "headers")
    ELSE LET nl == u16_at(b, i)
         IN IF i + 3 + nl > Len(b) THEN Malformed(0, "headers")
            ELSE LET vl == u16_at(b, i + 2 + nl)
                 IN IF i + 3 + nl + vl > Len(b) THEN Malformed(0, "headers")
                    ELSE parse_entries(b, i + 4 + nl + vl, count - 1,
                           (SubSeq(b, i + 2, i + 1 + nl)
                              :> SubSeq(b, i + 4 + nl, i + 3 + nl + vl)) @@ acc)

\* the body of one frame, by tag
parse_body(tag, b) ==
    CASE tag = 0 ->
           IF Len(b) < 4 THEN Malformed(tag, "tube_id")
           ELSE LET hs == parse_entries(b, 5, u16_at(b, 3), EmptyHeaders)
                IN IF hs.ok THEN Parsed(NewTubeFrameWith(u16_at(b, 1), hs.headers)) ELSE hs
      [] tag = 1 ->
           IF Len(b) < 3 THEN Malformed(tag, "tube_id")
           ELSE IF b[3] = 0 THEN Parsed(PayloadFrame(u16_at(b, 1), {}, from_byte(b, 4)))
           ELSE IF b[3] = 1 /\ Len(b) >= 5
                THEN Parsed(PayloadFrame(u16_at(b, 1), {u16_at(b, 4)}, from_byte(b, 6)))
           ELSE Malformed(tag, "ack_flag")
      [] tag = 2 ->
           IF Len(b) = 4 THEN Parsed(PayloadAckFrame(u16_at(b, 1), u16_at(b, 3)))
           ELSE Malformed(tag, "ack_id")
      [] tag = 3 ->
           IF Len(b) = 2 THEN Parsed(ClientHasFinishedSendingFrame(u16_at(b, 1)))
           ELSE Malformed(tag, "tube_id")
      [] tag = 4 ->
           IF Len(b) = 2 THEN Parsed(ServerHasFinishedSendingFrame(u16_at(b, 1)))
           ELSE Malformed(tag, "tube_id")
      [] tag = 5 ->
           IF Len(b) = 3 THEN Parsed(AbortFrame(u16_at(b, 1), reason_of(b[3])))
           ELSE Malformed(tag, "reason")
      [] tag = 6 ->
           IF Len(b) = 2 THEN Parsed(AbortAckFrame(u16_at(b, 1)))
           ELSE Malformed(tag, "tube_id")
      [] tag = 7 ->
           IF Len(b) = 0 THEN Parsed(DrainFrame) ELSE Malformed(tag, "body")

\* fault for C13: the bytes of a partial frame are dropped at the end of a feed
retain_nothing(buf) == << >>

\* the partial-frame tail kept in the decoder's byte buffer
retain(buf) == buf

\* the decoder loop over the accumulated bytes: AwaitingTag (no byte),
\* AwaitingLength (fewer than 3), AwaitingBody (fewer than 3 + length), else
\* one frame is complete and the loop goes on with the bytes after it
RECURSIVE drain(_, _)
drain(buf, out) ==
    IF buf = << >> THEN [buf |-> << >>, frames |-> out, err |-> "none"]
    ELSE IF buf[1] \notin 0 .. 7 THEN [buf |-> << >>, frames |-> out, err |-> "UnknownFrameTag"]
    ELSE IF Len(buf) < 3 THEN [buf |-> retain(buf), frames |-> out, err |-> "none"]
    ELSE IF Len(buf) < 3 + u16_at(buf, 2)
         THEN [buf |-> retain(buf), frames |-> out, err |-> "none"]
    ELSE LET n == u16_at(buf, 2)
             r == parse_body(buf[1], SubSeq(buf, 4, 3 + n))
         IN IF r.ok THEN drain(from_byte(buf, 4 + n), Append(out, r.frame))
            ELSE [buf |-> << >>, frames |-> out, err |-> r.err]

\* Decoder::new()
NewDecoder == [buf |-> << >>, poisoned |-> FALSE]

\* Decoder::decode(bytes): the frames completed by this feed, or the error
\* that poisons the decoder
decode(dec, bytes) ==
    IF dec.poisoned THEN [dec |-> dec, ok |-> FALSE, frames |-> << >>]
    ELSE LET d == drain(dec.buf \o bytes, << >>)
         IN IF d.err = "none"
            THEN [dec |-> [buf |-> d.buf, poisoned |-> FALSE], ok |-> TRUE, frames |-> d.frames]
            ELSE [dec |-> [buf |-> << >>, poisoned |-> TRUE], ok |-> FALSE, frames |-> << >>]

\* the values of codec_tests
TestTubeId == 65000

TestAckId == 32000

TestData == <<0, 1, 42, 255>>

TestHeaders == <<<< <<104, 49>>, <<118, 49>> >>, << <<104, 50>>, << >> >>>>

\* a frame value with one encoding of it
Encoded(f, e) == [frame |-> f, bytes |-> e.bytes]

\* the frames the codec is run on, every variant, each with its encodings (a
\* header map is written in either iteration order)
CodecSources ==
    {Encoded(NewTubeFrameWith(TestTubeId, headers_of(hs)), newtube_frame(TestTubeId, hs)) :
        hs \in {<< >>, TestHeaders, <<TestHeaders[2], TestHeaders[1]>>}}
    \cup {Encoded(f, encode(f)) : f \in
            {PayloadFrame(TestTubeId, {TestAckId}, TestData),
             PayloadFrame(TestTubeId, {}, TestData),
             PayloadFrame(0, {}, << >>),
             PayloadFrame(1, {}, encode(DrainFrame).bytes),
             PayloadAckFrame(TestTubeId, TestAckId),
             ClientHasFinishedSendingFrame(TestTubeId),
             ServerHasFinishedSendingFrame(TestTubeId),
             AbortFrame(TestTubeId, "Unknown"),
             AbortFrame(TestTubeId, "ApplicationError"),
             AbortAckFrame(TestTubeId),
             DrainFrame}}

RECURSIVE concat_bytes(_)
concat_bytes(srcs) ==
    IF srcs = << >> THEN << >> ELSE srcs[1].bytes \o concat_bytes(Tail(srcs))

\* a decoder before its first feed, with the byte stream it will be fed
\* (frames: the frames encoded; ends: the offset each ends at; pos: bytes fed;
\* out: frames returned so far; calls: feeds made, 2 standing for two or more)
CodecOn(srcs) ==
    [frames |-> [i \in 1 .. Len(srcs) |-> srcs[i].frame],
     ends |-> [i \in 1 .. Len(srcs) |-> Len(concat_bytes(SubSeq(srcs, 1, i)))],
     stream |-> concat_bytes(srcs),
     pos |-> 0, dec |-> NewDecoder, out |-> << >>, ok |-> TRUE, calls |-> 0]

IdleCodec == CodecOn(<< >>)

InitCodec ==
    /\ wired = FALSE
    /\ active = {}
    /\ InitCommon
    /\ chan = NewChannel
    /\ state_machine = NewStateMachine
    /\ \E n \in 1 .. MaxStream : \E srcs \in [1 .. n -> CodecSources] :
         codec = CodecOn(srcs)

\* one feed: the next k bytes of the stream are handed to Decoder::decode
Feed ==
    /\ \E k \in 1 .. (Len(codec.stream) - codec.pos) :
         LET r == decode(codec.dec, SubSeq(codec.stream, codec.pos + 1, codec.pos + k))
         IN codec' = [codec EXCEPT !.pos = @ + k, !.dec = r.dec, !.ok = @ /\ r.ok,
                                   !.out = @ \o r.frames,
                                   !.calls = IF @ = 0 THEN 1 ELSE 2]
    /\ UNCHANGED <<corevars, chan, state_machine>>

\* ------------------------------------------------------------ initial states
InitAux == chan = NewChannel /\ codec = IdleCodec /\ state_machine = NewStateMachine

Init ==
    /\ wired = FALSE
    /\ \E p \in Peers : active = {p}
    /\ InitCommon
    /\ InitAux

InitNet ==
    /\ wired = TRUE
    /\ active = Peers
    /\ InitCommon
    /\ InitAux

InitMachine ==
    /\ wired = FALSE
    /\ active = {}
    /\ InitCommon
    /\ InitAux

InitChannel ==
    /\ wired = FALSE
    /\ active = {}
    /\ InitCommon
    /\ chan \in ChannelStates
    /\ codec = IdleCodec
    /\ state_machine = NewStateMachine

\* ---------------------------------------------------------------- helpers
\* FrameHandler::get_tube_mgr: the table lookup, 0 for None
get_tube_mgr(p, t) == tube_managers[p][t]

\* fault for C3: the event is put at the head (push_front)
push_front(q, e) == <<e>> \o q

\* VecDeque::push_back
push_back(q, e) == Append(q, e)

\* if let Some(waker) = tube_mgr.waker.take() { waker.wake() }
\* fault for C24: the stored waker is left in place and never woken
take_no_wake(mgr) == mgr

take_and_wake(mgr) == [mgr EXCEPT !.waker = FALSE]

\* fault for C18: the entry is left in the table
table_remove_nothing(tbl, t) == tbl

\* HashMap::remove(&tube_id)
table_remove(tbl, t) == [tbl EXCEPT ![t] = 0]

HandlerAt(p, pc) == p \in active /\ h[p].pc = pc

\* ------------------------------------------------------------ lock scopes
\* h[p].held is the set of synchronous locks ("table", "mgr") the call still
\* holds when it arrives at the section h[p].pc; the section then takes the
\* lock section_lock names, and releases it as the scopes below say.

\* fault for C30: get_tube_mgr hands its guard of the table back to the caller
get_tube_mgr_guard_kept == {"table"}

\* the guard of the table lock taken in get_tube_mgr is a local of that
\* function: nothing is held once it has returned
get_tube_mgr_guard == {}

\* fault for C23: the guard of the manager lock lives to the end of the arm
mgr_block_guard_kept == {"mgr"}

\* the guard of the manager lock in the half-close and Abort arms is a local
\* of an inner block: nothing is held once the block has ended
mgr_block_guard == {}

\* the locks still held when the call leaves the section pc for another one
held_after(pc) ==
    CASE pc \in {"chfs_mgr", "shfs_mgr", "abort_mgr"} -> mgr_block_guard
      [] OTHER -> {}

\* the lock the section pc takes
section_lock(pc) ==
    CASE pc \in {"chfs_mgr", "shfs_mgr", "payload_push", "payloadack_mgr",
                 "abort_mgr", "abortack_mgr"} -> "mgr"
      [] pc \in {"chfs_remove", "shfs_remove", "abort_remove"} -> "table"
      [] pc \in {"payload_ack", "abort_ack"} -> "sink"
      [] OTHER -> "table"

Goto(p, pc) == h' = [h EXCEPT ![p].pc = pc, ![p].held = @ \cup held_after(h[p].pc)]

Return(p, res) == h' = [h EXCEPT ![p].pc = "idle", ![p].result = res, ![p].held = {}]

\* ---------------------------------------------------------- handle_frame
\* the header of every handle_frame call: the handler record it starts from
Start(p, f, pc, m, res) ==
    h' = [h EXCEPT ![p] = [pc |-> pc, frame |-> f, mgr |-> m,
                           result |-> res, wrote |-> << >>,
                           held |-> IF pc = "idle" THEN {} ELSE get_tube_mgr_guard]]

\* fault for C20: a missing entry is reported as handled
Lookup_none_is_handled(p, f, pc) ==
    IF get_tube_mgr(p, f.tube_id) = 0
    THEN Start(p, f, "idle", 0, FullyHandled)
    ELSE Start(p, f, pc, get_tube_mgr(p, f.tube_id), NoResult)

\* let tube_mgr = match self.get_tube_mgr(&tube_id) { Some(tm) => tm,
\*     None => return Err(UntrackedTubeId(frame)) }
Lookup(p, f, pc) ==
    IF get_tube_mgr(p, f.tube_id) = 0
    THEN Start(p, f, "idle", 0, ErrFrame(f))
    ELSE Start(p, f, pc, get_tube_mgr(p, f.tube_id), NoResult)

\* fault for C8: HashMap::insert, which overwrites an occupied key
insert_overwrites(tbl, t) == TRUE

\* HashMap::try_insert: TRUE when the key is vacant
try_insert_ok(tbl, t) == tbl[t] = 0

\* fault for C6: a second ClientHasFinishedSending closes the tube
ClientHfsNewState_dup_closes(cs, t) ==
    CASE cs.st = "Open" ->
           [ret |-> FALSE, new_state |-> ClientHasFinishedSending]
      [] cs.st \in {"ServerHasFinishedSending", "ClientHasFinishedSending"} ->
           [ret |-> FALSE, new_state |-> Closed]
      [] cs.st = "Closed" ->
           [ret |-> TRUE, result |-> ErrTube("DuplicateHasFinishedSendingFrame", t)]
      [] cs.st = "AbortedFromRemote" ->
           [ret |-> TRUE, result |-> ErrTube("ReceivedHasFinishedSendingAfterRemoteAbort", t)]
      [] cs.st = "AbortedFromLocal" ->
           [ret |-> TRUE, result |-> FullyHandled]

\* the match on completion_state of a ClientHasFinishedSending frame
ClientHfsNewState(cs, t) ==
    CASE cs.st = "Open" ->
           [ret |-> FALSE, new_state |-> ClientHasFinishedSending]
      [] cs.st = "ServerHasFinishedSending" ->
           [ret |-> FALSE, new_state |-> Closed]
      [] cs.st \in {"ClientHasFinishedSending", "Closed"} ->
           [ret |-> TRUE, result |-> ErrTube("DuplicateHasFinishedSendingFrame", t)]
      [] cs.st = "AbortedFromRemote" ->
           [ret |-> TRUE, result |-> ErrTube("ReceivedHasFinishedSendingAfterRemoteAbort", t)]
      [] cs.st = "AbortedFromLocal" ->
           [ret |-> TRUE, result |-> FullyHandled]

\* the match on completion_state of a ServerHasFinishedSending frame
ServerHfsNewState(cs, t) ==
    CASE cs.st = "Open" ->
           [ret |-> FALSE, new_state |-> ServerHasFinishedSending]
      [] cs.st = "ClientHasFinishedSending" ->
           [ret |-> FALSE, new_state |-> Closed]
      [] cs.st \in {"ServerHasFinishedSending", "Closed"} ->
           [ret |-> TRUE, result |-> ErrTube("DuplicateHasFinishedSendingFrame", t)]
      [] cs.st = "AbortedFromRemote" ->
           [ret |-> TRUE, result |-> ErrTube("ReceivedHasFinishedSendingAfterRemoteAbort", t)]
      [] cs.st = "AbortedFromLocal" ->
           [ret |-> TRUE, result |-> FullyHandled]

\* fault for C28: the half-close event is pushed on every change of state
HfsApply_always_pushes(mgr, new_state, half, ev) ==
    IF mgr.completion_state # new_state
    THEN take_and_wake(
           [mgr EXCEPT !.completion_state = new_state,
                       !.pending_events = push_back(@, ev)])
    ELSE mgr

\* if completion_state != new_state { set it; push the half-close event when
\* the new state is the frame's own half-close state; take and wake }
HfsApply(mgr, new_state, half, ev) ==
    IF mgr.completion_state # new_state
    THEN take_and_wake(
           [mgr EXCEPT !.completion_state = new_state,
                       !.pending_events =
                           IF new_state = half THEN push_back(@, ev) ELSE @])
    ELSE mgr

\* the events HfsApply pushes, for the history
HfsPushed(mgr, new_state, half, ev) ==
    IF mgr.completion_state # new_state /\ new_state = half THEN <<ev>> ELSE << >>

\* fault for C5: the Abort frame never reaches the arm that enqueues the event
AbortArm_no_event(cs) ==
    CASE cs.st = "AbortedFromRemote" -> "duplicate"
      [] OTHER -> "nothing"

\* the match on completion_state of an Abort frame
AbortArm(cs) ==
    CASE cs.st = "AbortedFromRemote" -> "duplicate"
      [] cs.st = "AbortedFromLocal" -> "nothing"
      [] OTHER -> "abort"

\* the state the wildcard arm of the Abort match stores
AbortNewState(reason) == AbortedFromLocal(reason)

\* fault for C19: the peer-type check of the half-close frames is missing
InappropriatePeer_never(p, ftype) == FALSE

\* if let PeerType::Client = self.peer_type (ClientHasFinishedSending frame),
\* if let PeerType::Server = self.peer_type (ServerHasFinishedSending frame)
InappropriatePeer(p, ftype) ==
    \/ ftype = "ClientHasFinishedSending" /\ p = "Client"
    \/ ftype = "ServerHasFinishedSending" /\ p = "Server"

\* fault for C7: the peer-type check of NewTube is missing
NewTubeRejected_never(p) == FALSE

\* if let PeerType::Client = self.peer_type (NewTube frame)
NewTubeRejected(p) == p = "Client"

\* fault for C1: the requested ack is never sent
AckRequested_never(f) == FALSE

\* if let Some(ack_id) = ack_id (Payload frame)
AckRequested(f) == f.ack_id # {}

\* fault for C4: the entry of a Closed tube is never removed
should_remove_never(new_state) == FALSE

\* tube::TubeCompletionState::Closed == new_state
should_remove_tube_mgr(new_state) == Closed = new_state

\* first section of handle_frame: the peer-type check and the table lookup
\* (or, for NewTube, the insertion), under the table lock
handle_frame(p, f) ==
    /\ HandlerAt(p, "idle")
    /\ nframes[p] < MaxFrames
    /\ nframes' = [nframes EXCEPT ![p] = @ + 1]
    /\ UNCHANGED <<auxvars, active, wired, nsends, tube_id_counter, delivered, enqueued, local_abort>>
    /\ CASE f.type = "ClientHasFinishedSending" ->
              /\ IF InappropriatePeer(p, f.type)
                 THEN Start(p, f, "idle", 0, Err("InappropriateHasFinishedSendingFrameFromPeer"))
                 ELSE Lookup(p, f, "chfs_mgr")
              /\ UNCHANGED <<tube_managers, mgrs>>
         [] f.type = "Drain" ->
              /\ Start(p, f, "idle", 0, FullyHandled)
              /\ UNCHANGED <<tube_managers, mgrs>>
         [] f.type = "NewTube" ->
              IF NewTubeRejected(p)
              THEN /\ Start(p, f, "idle", 0, Err("ServerInitiatedTubesNotImplemented"))
                   /\ UNCHANGED <<tube_managers, mgrs>>
              ELSE IF try_insert_ok(tube_managers[p], f.tube_id)
              THEN /\ Len(mgrs[p]) < MaxMgrs
                   /\ mgrs' = [mgrs EXCEPT ![p] = Append(@, NewTubeManager(f.tube_id))]
                   /\ tube_managers' = [tube_managers EXCEPT ![p][f.tube_id] = Len(mgrs[p]) + 1]
                   /\ Start(p, f, "idle", 0, NewTubeResult(Len(mgrs[p]) + 1))
              ELSE /\ Start(p, f, "idle", 0, ErrTube("TubeManagerInsertionError", f.tube_id))
                   /\ UNCHANGED <<tube_managers, mgrs>>
         [] f.type = "Payload" ->
              /\ Lookup(p, f, IF AckRequested(f) THEN "payload_ack" ELSE "payload_push")
              /\ UNCHANGED <<tube_managers, mgrs>>
         [] f.type = "PayloadAck" ->
              /\ Lookup(p, f, "payloadack_mgr")
              /\ UNCHANGED <<tube_managers, mgrs>>
         [] f.type = "ServerHasFinishedSending" ->
              /\ IF InappropriatePeer(p, f.type)
                 THEN Start(p, f, "idle", 0, Err("InappropriateHasFinishedSendingFrameFromPeer"))
                 ELSE Lookup(p, f, "shfs_mgr")
              /\ UNCHANGED <<tube_managers, mgrs>>
         [] f.type = "Abort" ->
              /\ Lookup(p, f, "abort_mgr")
              /\ UNCHANGED <<tube_managers, mgrs>>
         [] f.type = "AbortAck" ->
              /\ Lookup(p, f, "abortack_mgr")
              /\ UNCHANGED <<tube_managers, mgrs>>

\* the handler is handed any frame (Spec)
RecvAny(p) ==
    /\ \E f \in Frames : handle_frame(p, f)
    /\ UNCHANGED sink

\* the driver takes the next frame the other peer wrote (SpecNet); a failed
\* handle_frame is fatal to the channel and ends the driver loop
RecvNet(p) ==
    /\ sink[Other(p)] # << >>
    /\ ~IsErr(h[p].result)
    /\ handle_frame(p, Head(sink[Other(p)]))
    /\ sink' = [sink EXCEPT ![Other(p)] = Tail(@)]

\* the half-close section under the per-tube lock (both frame types)
HfsMgrSection(p, pc, removepc, outcome, half, ev) ==
    /\ HandlerAt(p, pc)
    /\ LET m == h[p].mgr
           mgr == mgrs[p][m]
           o == outcome
       IN IF o.ret
          THEN /\ Return(p, o.result)
               /\ UNCHANGED <<mgrs, enqueued>>
          ELSE /\ mgrs' = [mgrs EXCEPT ![p][m] = HfsApply(mgr, o.new_state, half, ev)]
               /\ enqueued' = [enqueued EXCEPT ![p][m] =
                                  @ \o HfsPushed(mgr, o.new_state, half, ev)]
               /\ IF should_remove_tube_mgr(o.new_state)
                  THEN Goto(p, removepc)
                  ELSE Return(p, FullyHandled)
    /\ UNCHANGED <<auxvars, active, wired, tube_managers, sink, nframes, nsends,
                   tube_id_counter, delivered, local_abort>>

ClientHfsMgr(p) ==
    HfsMgrSection(p, "chfs_mgr", "chfs_remove",
                  ClientHfsNewState(mgrs[p][h[p].mgr].completion_state, h[p].frame.tube_id),
                  ClientHasFinishedSending, ClientHasFinishedSendingEvent)

ServerHfsMgr(p) ==
    HfsMgrSection(p, "shfs_mgr", "shfs_remove",
                  ServerHfsNewState(mgrs[p][h[p].mgr].completion_state, h[p].frame.tube_id),
                  ServerHasFinishedSending, ServerHasFinishedSendingEvent)

\* if should_remove_tube_mgr { self.tube_managers.lock().unwrap().remove(&tube_id) }
HfsRemove(p) ==
    /\ p \in active
    /\ h[p].pc \in {"chfs_remove", "shfs_remove"}
    /\ tube_managers' = [tube_managers EXCEPT ![p] = table_remove(@, h[p].frame.tube_id)]
    /\ Return(p, FullyHandled)
    /\ UNCHANGED <<auxvars, active, wired, mgrs, sink, nframes, nsends, tube_id_counter,
                   delivered, enqueued, local_abort>>

\* fault for C22: a written frame overtakes the frames already on the sink
send_data_front(p, f) == sink' = [sink EXCEPT ![p] = IF wired THEN <<f>> \o @ ELSE @]

\* sender.send_data(..).await on the outbound sink, under the sink lock.  The
\* sink holds the frames written and not yet taken by the remote driver; in
\* Spec the remote end is not modelled and takes every frame at once (what a
\* handle_frame call wrote is kept in the call's own record, h[p].wrote)
send_data(p, f) == sink' = [sink EXCEPT ![p] = IF wired THEN Append(@, f) ELSE @]

\* the outcomes of send_data: Ok, or hyper::Error when the transport fails
\* (SpecNet assumes a reliable transport)
SendOutcomes == IF wired THEN {TRUE} ELSE {TRUE, FALSE}

\* fault for C29: the error of the send is dropped and the call goes on
send_failed_ignored(p, kind) ==
    /\ h' = [h EXCEPT ![p].pc = IF @ = "payload_ack" THEN "payload_push" ELSE "idle",
                      ![p].result = IF h[p].pc = "payload_ack" THEN @ ELSE FullyHandled]
    /\ UNCHANGED sink

\* Err(e) => return Err(FrameHandlerError::PayloadAckTransmitError(e)), and
\* the same for AbortAckTransmitError: nothing was written, the call returns
send_failed(p, kind) ==
    /\ Return(p, Err(kind))
    /\ UNCHANGED sink

\* Payload: if an ack was requested, send one
PayloadSendAck(p) ==
    /\ HandlerAt(p, "payload_ack")
    /\ LET f == h[p].frame
           ack == PayloadAckFrame(f.tube_id, CHOOSE a \in f.ack_id : TRUE)
       IN \E ok \in SendOutcomes :
            IF ok
            THEN /\ send_data(p, ack)
                 /\ h' = [h EXCEPT ![p].pc = "payload_push", ![p].wrote = Append(@, ack)]
            ELSE send_failed(p, "PayloadAckTransmitError")
    /\ UNCHANGED <<auxvars, active, wired, tube_managers, mgrs, nframes, nsends,
                   tube_id_counter, delivered, enqueued, local_abort>>

\* Payload: push the event and wake, under the per-tube lock
PayloadPush(p) ==
    /\ HandlerAt(p, "payload_push")
    /\ LET m == h[p].mgr
           ev == PayloadEvent(h[p].frame.data)
       IN /\ mgrs' = [mgrs EXCEPT ![p][m] =
                        take_and_wake([@ EXCEPT !.pending_events = push_back(@, ev)])]
          /\ enqueued' = [enqueued EXCEPT ![p][m] = Append(@, ev)]
    /\ Return(p, FullyHandled)
    /\ UNCHANGED <<auxvars, active, wired, tube_managers, sink, nframes, nsends,
                   tube_id_counter, delivered, local_abort>>

\* fault for C21: an ack id that was never registered is taken as found
sendacks_get_mut_any(sendacks, a) == TRUE

\* tube_mgr.sendacks.get_mut(&ack_id): Some when the ack id is a key
sendacks_get_mut(sendacks, a) == sendacks[a] # "absent"

\* PayloadAck: resolve sendacks[ack_id], under the per-tube lock
PayloadAckMgr(p) ==
    /\ HandlerAt(p, "payloadack_mgr")
    /\ LET m == h[p].mgr
           f == h[p].frame
       IN IF sendacks_get_mut(mgrs[p][m].sendacks, f.ack_id)
          THEN /\ mgrs' = [mgrs EXCEPT ![p][m].sendacks[f.ack_id] = "resolved"]
               /\ Return(p, FullyHandled)
          ELSE /\ Return(p, ErrAck(f.tube_id, f.ack_id))
               /\ UNCHANGED mgrs
    /\ UNCHANGED <<auxvars, active, wired, tube_managers, sink, nframes, nsends,
                   tube_id_counter, delivered, enqueued, local_abort>>

\* Abort: the match on completion_state, under the per-tube lock
AbortMgr(p) ==
    /\ HandlerAt(p, "abort_mgr")
    /\ LET m == h[p].mgr
           f == h[p].frame
           arm == AbortArm(mgrs[p][m].completion_state)
       IN CASE arm = "duplicate" ->
                 /\ Return(p, ErrTube("DuplicateAbortFrame", f.tube_id))
                 /\ UNCHANGED <<mgrs, enqueued>>
            [] arm = "nothing" ->
                 /\ Goto(p, "abort_remove")
                 /\ UNCHANGED <<mgrs, enqueued>>
            [] arm = "abort" ->
                 /\ mgrs' = [mgrs EXCEPT ![p][m] =
                       take_and_wake(
                         [@ EXCEPT !.completion_state = AbortNewState(f.reason),
                                   !.pending_events = push_back(@, AbortEvent(f.reason))])]
                 /\ enqueued' = [enqueued EXCEPT ![p][m] = Append(@, AbortEvent(f.reason))]
                 /\ Goto(p, "abort_remove")
    /\ UNCHANGED <<auxvars, active, wired, tube_managers, sink, nframes, nsends,
                   tube_id_counter, delivered, local_abort>>

\* Abort: self.tube_managers.lock().unwrap().remove(&tube_id)
AbortRemove(p) ==
    /\ HandlerAt(p, "abort_remove")
    /\ tube_managers' = [tube_managers EXCEPT ![p] = table_remove(@, h[p].frame.tube_id)]
    /\ Goto(p, "abort_ack")
    /\ UNCHANGED <<auxvars, active, wired, mgrs, sink, nframes, nsends, tube_id_counter,
                   delivered, enqueued, local_abort>>

\* Abort: encode and send the AbortAck
AbortSendAck(p) ==
    /\ HandlerAt(p, "abort_ack")
    /\ LET ack == AbortAckFrame(h[p].frame.tube_id)
       IN \E ok \in SendOutcomes :
            IF ok
            THEN /\ send_data(p, ack)
                 /\ h' = [h EXCEPT ![p].pc = "idle", ![p].result = FullyHandled,
                                   ![p].wrote = Append(@, ack), ![p].held = {}]
            ELSE send_failed(p, "AbortAckTransmitError")
    /\ UNCHANGED <<auxvars, active, wired, tube_managers, mgrs, nframes, nsends,
                   tube_id_counter, delivered, enqueued, local_abort>>

\* AbortAck: tube_mgr.abort_pending_id_reservation = None
AbortAckMgr(p) ==
    /\ HandlerAt(p, "abortack_mgr")
    /\ mgrs' = [mgrs EXCEPT ![p][h[p].mgr].abort_pending_id_reservation = FALSE]
    /\ Return(p, FullyHandled)
    /\ UNCHANGED <<auxvars, active, wired, tube_managers, sink, nframes, nsends,
                   tube_id_counter, delivered, enqueued, local_abort>>

\* ------------------------------------------------- Tube / Channel facade
\* the managers a peer's code holds a Tube handle for
Handles(p) == IF p \in active THEN 1 .. Len(mgrs[p]) ELSE {}

\* fault for C11: the counter advances by one
new_tube_id_by_one(c) == [id |-> c, counter |-> (c + 1) % U16]

\* Channel::new_tube_id: let new_id = self.tube_id_counter;
\* self.tube_id_counter += 2; new_id   (u16 arithmetic, wrapped)
new_tube_id(c) == [id |-> c, counter |-> (c + 2) % U16]

\* Channel::make_tube: allocate the id, transmit NewTube, insert the tube
make_tube ==
    /\ "Client" \in active
    /\ tube_id_counter \in TubeIds
    /\ Len(mgrs["Client"]) < MaxMgrs
    /\ LET n == new_tube_id(tube_id_counter)
       IN /\ tube_id_counter' = n.counter
          /\ send_data("Client", NewTubeFrame(n.id))
          /\ IF try_insert_ok(tube_managers["Client"], n.id)
             THEN /\ mgrs' = [mgrs EXCEPT !["Client"] = Append(@, NewTubeManager(n.id))]
                  /\ tube_managers' = [tube_managers EXCEPT
                                         !["Client"][n.id] = Len(mgrs["Client"]) + 1]
             ELSE UNCHANGED <<mgrs, tube_managers>>
    /\ UNCHANGED <<auxvars, active, wired, h, nframes, nsends, delivered, enqueued, local_abort>>

\* Tube::poll_next on the tube of manager m: pop the head of pending_events;
\* if empty store the waker and suspend.  A consumer whose waker is stored is
\* suspended: it polls again only after the handler has taken and woken it
poll_next_of(p, m) ==
    /\ m \in Handles(p)
    /\ ~mgrs[p][m].waker
    /\ IF mgrs[p][m].pending_events # << >>
       THEN /\ mgrs' = [mgrs EXCEPT ![p][m].pending_events = Tail(@)]
            /\ delivered' = [delivered EXCEPT
                               ![p][m] = Append(@, Head(mgrs[p][m].pending_events))]
       ELSE /\ mgrs' = [mgrs EXCEPT ![p][m].waker = TRUE]
            /\ UNCHANGED delivered
    /\ UNCHANGED <<auxvars, active, wired, tube_managers, sink, h, nframes, nsends,
                   tube_id_counter, enqueued, local_abort>>

poll_next(p) == \E m \in 1 .. MaxMgrs : poll_next_of(p, m)

\* the completion states in which the local peer may still send payload
MaySend(p, cs) ==
    cs.st \in {"Open", IF p = "Client" THEN "ServerHasFinishedSending"
                                        ELSE "ClientHasFinishedSending"}

\* Tube::send_payload: allocate ack_id if requested, register the one-shot in
\* sendacks, transmit Payload
send_payload(p) ==
    /\ nsends[p] < MaxSends
    /\ nsends' = [nsends EXCEPT ![p] = @ + 1]
    /\ \E m \in Handles(p), d \in AppDatas(wired), request_ack \in BOOLEAN :
         LET mgr == mgrs[p][m]
             a == mgr.ack_id_counter
         IN /\ MaySend(p, mgr.completion_state)
            /\ IF request_ack
               THEN /\ a < MaxAcks
                    /\ mgrs' = [mgrs EXCEPT ![p][m].sendacks[a] = "pending",
                                            ![p][m].ack_id_counter = a + 1]
                    /\ send_data(p, PayloadFrame(mgr.tube_id, {a}, d))
               ELSE /\ UNCHANGED mgrs
                    /\ send_data(p, PayloadFrame(mgr.tube_id, {}, d))
    /\ UNCHANGED <<auxvars, active, wired, tube_managers, h, nframes, tube_id_counter,
                   delivered, enqueued, local_abort>>

\* the local half-close state of a peer, its frame, and the state after it
LocalHalf(p) == IF p = "Client" THEN ClientHasFinishedSending ELSE ServerHasFinishedSending

LocalHalfFrame(p, t) ==
    IF p = "Client" THEN ClientHasFinishedSendingFrame(t) ELSE ServerHasFinishedSendingFrame(t)

\* Tube::has_finished_sending: transmit the local half-close frame and advance
\* the local state; reaching Closed removes the table entry
has_finished_sending(p) ==
    /\ \E m \in Handles(p) :
         LET mgr == mgrs[p][m]
             new_state == IF mgr.completion_state = Open THEN LocalHalf(p) ELSE Closed
         IN /\ MaySend(p, mgr.completion_state)
            /\ mgrs' = [mgrs EXCEPT ![p][m].completion_state = new_state]
            /\ send_data(p, LocalHalfFrame(p, mgr.tube_id))
            /\ tube_managers' =
                 IF new_state = Closed
                 THEN [tube_managers EXCEPT ![p] = table_remove(@, mgr.tube_id)]
                 ELSE tube_managers
    /\ UNCHANGED <<auxvars, active, wired, h, nframes, nsends, tube_id_counter,
                   delivered, enqueued, local_abort>>

\* Tube::abort: set AbortedFromLocal(reason) and the id reservation, transmit
\* Abort, keep the table entry
abort(p) ==
    /\ \E m \in Handles(p), r \in AppReasons(wired) :
         LET mgr == mgrs[p][m]
         IN /\ mgr.completion_state.st \in
                   {"Open", "ClientHasFinishedSending", "ServerHasFinishedSending"}
            /\ mgrs' = [mgrs EXCEPT ![p][m].completion_state = AbortedFromLocal(r),
                                    ![p][m].abort_pending_id_reservation = TRUE]
            /\ send_data(p, AbortFrame(mgr.tube_id, r))
            /\ local_abort' = [local_abort EXCEPT ![p][m] = mgr.completion_state.st]
    /\ UNCHANGED <<auxvars, active, wired, tube_managers, h, nframes, nsends,
                   tube_id_counter, delivered, enqueued>>

\* ------------------------------------------- Channel (tubez_client crate)
\* `+= 2` on a u16 that would pass the top of the range: the build wraps it
\* (release profile) or panics (overflow checks on)
OverflowOutcomes == {"wrap", "panic"}

\* self.tubes.try_insert(tube_id, tube.clone()): Ok when the key is vacant
tubes_try_insert_ok(tubes, id) == id \notin tubes

\* the body of Channel::make_tube after new_tube_id: encode the frame, send it
\* on the body sender, insert the tube
make_tube_result(tubes, id, enc_ok, send_ok) ==
    IF ~enc_ok THEN "FrameEncodeError"
    ELSE IF ~send_ok THEN "UnknownTransportError"
    ELSE IF tubes_try_insert_ok(tubes, id) THEN "Ok"
    ELSE "InternalErrorDuplicateTubeId"

\* one call of Channel::make_tube; enc_ok says whether the headers encode,
\* send_ok whether the transport takes the frame
ChannelMakeTube ==
    /\ Len(chan.log) < MaxCalls
    /\ ~chan.panicked
    /\ \E overflow \in OverflowOutcomes, enc_ok \in BOOLEAN, send_ok \in BOOLEAN :
         LET c == chan.tube_id_counter
             n == new_tube_id(c)
             res == make_tube_result(chan.tubes, n.id, enc_ok, send_ok)
         IN IF c + 2 >= U16 /\ overflow = "panic"
            THEN chan' = [chan EXCEPT !.panicked = TRUE]
            ELSE chan' = [chan EXCEPT
                            !.tube_id_counter = n.counter,
                            !.tubes = IF res = "Ok" THEN @ \cup {n.id} ELSE @,
                            !.log = Append(@, [id |-> n.id, result |-> res,
                                               live |-> n.id \in chan.tubes])]
    /\ UNCHANGED <<corevars, codec, state_machine>>

\* --------------------------------------------------------- specifications
Steps(p) ==
    \/ ClientHfsMgr(p)
    \/ ServerHfsMgr(p)
    \/ HfsRemove(p)
    \/ PayloadSendAck(p)
    \/ PayloadPush(p)
    \/ PayloadAckMgr(p)
    \/ AbortMgr(p)
    \/ AbortRemove(p)
    \/ AbortSendAck(p)
    \/ AbortAckMgr(p)
    \/ poll_next(p)
    \/ send_payload(p)
    \/ has_finished_sending(p)
    \/ abort(p)

Next ==
    \/ \E p \in Peers : RecvAny(p) \/ Steps(p)
    \/ make_tube

NextNet ==
    \/ \E p \in Peers : RecvNet(p) \/ Steps(p)
    \/ make_tube

Spec == Init /\ [][Next]_vars

SpecNet == InitNet /\ [][NextNet]_vars

\* The handler and the consumers of its tubes, with fair consumers: the task
\* polling a tube is scheduled again whenever it is not suspended (tasks run on
\* a worker pool that starves none).  The handler is handed the frames whose
\* arms create a tube or enqueue an event; the application half-closes and
\* aborts, which changes the completion_state those arms branch on.
LiveFrames ==
    {f \in Frames : f.type \in {"NewTube", "Payload", "ClientHasFinishedSending",
                                "ServerHasFinishedSending", "Abort"}}

RecvLive(p) ==
    /\ nframes[p] < MaxLiveFrames
    /\ \E f \in LiveFrames : handle_frame(p, f)
    /\ UNCHANGED sink

NextLive ==
    \/ \E p \in Peers :
          \/ RecvLive(p)
          \/ ClientHfsMgr(p)
          \/ ServerHfsMgr(p)
          \/ HfsRemove(p)
          \/ PayloadSendAck(p)
          \/ PayloadPush(p)
          \/ AbortMgr(p)
          \/ AbortRemove(p)
          \/ AbortSendAck(p)
          \/ poll_next(p)
          \/ has_finished_sending(p)
          \/ abort(p)
    \/ make_tube

SpecLive ==
    /\ Init
    /\ [][NextLive]_vars
    /\ \A p \in Peers : \A m \in 1 .. MaxMgrs : WF_vars(poll_next_of(p, m))

NextChannel == ChannelMakeTube

SpecChannel == InitChannel /\ [][NextChannel]_vars

NextCodec == Feed

SpecCodec == InitCodec /\ [][NextCodec]_vars

NextMachine == TransitionTo

SpecMachine == InitMachine /\ [][NextMachine]_vars

TypeOK ==
    /\ \A p \in Peers : Len(mgrs[p]) <= MaxMgrs
    /\ \A p \in Peers : h[p].pc = "idle" \/ h[p].mgr \in 1 .. Len(mgrs[p])

\* ------------------------------------------------------------ properties
\* the managers of peer p
Mgrs(p) == 1 .. Len(mgrs[p])

\* the handler of p took a step
HandlerStep(p) == h'[p] # h[p]

\* the handler of p took frame f in this step
Took(p, ftype) == h[p].pc = "idle" /\ HandlerStep(p) /\ h'[p].frame.type = ftype

LastOf(q) == q[Len(q)]

\* the call in progress (or the last one) is a Payload carrying Some(ack_id)
AckedPayload(p) == h[p].frame.type = "Payload" /\ h[p].frame.ack_id # {}

ExpectedAck(p) ==
    PayloadAckFrame(h[p].frame.tube_id, CHOOSE a \in h[p].frame.ack_id : TRUE)

\* the handler of p appended an event to the manager it looked up
Appended(p) ==
    /\ h[p].pc # "idle"
    /\ HandlerStep(p)
    /\ Len(mgrs'[p][h[p].mgr].pending_events) > Len(mgrs[p][h[p].mgr].pending_events)

\* C1 - ack exactness: a handle_frame call on a Payload carrying ack_id = a
\* that returns without error has written exactly one frame, PayloadAck(tube_id,
\* a), to the sink; the ack is already written when the Payload event is
\* appended to pending_events, and the call returns (so no later frame is
\* taken) only after it.
C1_AckExactness ==
    /\ [](\A p \in Peers :
            (AckedPayload(p) /\ h[p].pc = "idle" /\ ~IsErr(h[p].result))
                => h[p].wrote = <<ExpectedAck(p)>>)
    /\ [][\A p \in Peers :
            /\ (AckedPayload(p) /\ Appended(p)) => h[p].wrote = <<ExpectedAck(p)>>
            /\ (AckedPayload(p) /\ h[p].pc # "idle" /\ h'[p].pc = "idle"
                  /\ ~IsErr(h'[p].result))
                 => /\ h'[p].wrote = <<ExpectedAck(p)>>
                    /\ LastOf(mgrs'[p][h[p].mgr].pending_events)
                         = PayloadEvent(h[p].frame.data)]_vars

C1_Witness ==
    \E p \in Peers :
        /\ AckedPayload(p)
        /\ h[p].pc = "idle"
        /\ h[p].result = FullyHandled
        /\ h[p].wrote = <<ExpectedAck(p)>>

\* C3 - per-tube FIFO: what the consumer has received from poll_next, followed
\* by what is still pending, is exactly the sequence of events the handler
\* enqueued on the tube, in the order it enqueued them.
C3_Fifo ==
    \A p \in Peers : \A m \in Mgrs(p) :
        delivered[p][m] \o mgrs[p][m].pending_events = enqueued[p][m]

C3_Witness ==
    \E p \in Peers : \E m \in Mgrs(p) :
        /\ Len(enqueued[p][m]) >= 2
        /\ enqueued[p][m][1] # enqueued[p][m][2]
        /\ Len(delivered[p][m]) >= 1
        /\ mgrs[p][m].pending_events # << >>

\* the manager section of a half-close frame finds the tube already in the
\* frame's own half-close state
DuplicateHalfClose(p) ==
    \/ /\ p = "Server"
       /\ h[p].pc = "chfs_mgr"
       /\ h[p].frame.type = "ClientHasFinishedSending"
       /\ mgrs[p][h[p].mgr].completion_state = ClientHasFinishedSending
    \/ /\ p = "Client"
       /\ h[p].pc = "shfs_mgr"
       /\ h[p].frame.type = "ServerHasFinishedSending"
       /\ mgrs[p][h[p].mgr].completion_state = ServerHasFinishedSending

\* C6 - duplicate half-close: a half-close frame that finds the tube already in
\* that half-close state returns DuplicateHasFinishedSendingFrame{tube_id} and
\* the call changes neither a manager nor the table.
C6_DuplicateHalfClose ==
    [][\A p \in Peers :
         /\ (Took(p, "ClientHasFinishedSending") \/ Took(p, "ServerHasFinishedSending"))
              => /\ mgrs' = mgrs
                 /\ tube_managers' = tube_managers
         /\ (DuplicateHalfClose(p) /\ HandlerStep(p))
              => /\ h'[p].pc = "idle"
                 /\ h'[p].result =
                      ErrTube("DuplicateHasFinishedSendingFrame", h[p].frame.tube_id)
                 /\ mgrs' = mgrs
                 /\ tube_managers' = tube_managers]_vars

C6_Witness ==
    \E p \in Peers :
        /\ h[p].pc = "idle"
        /\ h[p].result.kind = "DuplicateHasFinishedSendingFrame"
        /\ mgrs[p][h[p].mgr].completion_state
             = (IF p = "Server" THEN ClientHasFinishedSending ELSE ServerHasFinishedSending)

\* C7 - a client-role handler that takes a NewTube frame returns
\* ServerInitiatedTubesNotImplemented at once, inserts nothing into the table,
\* allocates no manager and writes nothing to the sink.
C7_ClientNewTube ==
    [][Took("Client", "NewTube")
         => /\ h'["Client"].pc = "idle"
            /\ h'["Client"].result = Err("ServerInitiatedTubesNotImplemented")
            /\ h'["Client"].wrote = << >>
            /\ tube_managers' = tube_managers
            /\ mgrs' = mgrs
            /\ sink' = sink]_vars

C7_Witness ==
    /\ h["Client"].frame.type = "NewTube"
    /\ h["Client"].result = Err("ServerInitiatedTubesNotImplemented")
    /\ \E t \in TubeIds : tube_managers["Client"][t] # 0

\* C8 - table uniqueness: on the server a NewTube for an id with no entry
\* inserts a new manager that is Open with nothing pending and returns
\* NewTube(tube); a NewTube for an id that has an entry returns
\* TubeManagerInsertionError{tube_id} and leaves the table and every manager
\* as they were.
C8_NewTubeInsertion ==
    [][Took("Server", "NewTube")
         => LET t == h'["Server"].frame.tube_id
                n == Len(mgrs["Server"]) + 1
            IN IF tube_managers["Server"][t] = 0
               THEN /\ Len(mgrs'["Server"]) = n
                    /\ SubSeq(mgrs'["Server"], 1, n - 1) = mgrs["Server"]
                    /\ mgrs'["Server"][n].tube_id = t
                    /\ mgrs'["Server"][n].completion_state = Open
                    /\ mgrs'["Server"][n].pending_events = << >>
                    /\ tube_managers'["Server"][t] = n
                    /\ h'["Server"].result = NewTubeResult(n)
               ELSE /\ h'["Server"].result = ErrTube("TubeManagerInsertionError", t)
                    /\ tube_managers' = tube_managers
                    /\ mgrs' = mgrs]_vars

C8_Witness ==
    /\ h["Server"].frame.type = "NewTube"
    /\ h["Server"].result.kind = "TubeManagerInsertionError"
    /\ tube_managers["Server"][h["Server"].frame.tube_id] # 0
    /\ mgrs["Server"][tube_managers["Server"][h["Server"].frame.tube_id]].pending_events # << >>

\* the moves of completion_state the state machine allows: Open to a half-close
\* or an aborted state, a half-close state to Closed or an aborted state
Forward(a, b) ==
    \/ a = b
    \/ /\ a.st = "Open"
       /\ b.st \in {"ClientHasFinishedSending", "ServerHasFinishedSending",
                    "AbortedFromLocal", "AbortedFromRemote"}
    \/ /\ a.st \in {"ClientHasFinishedSending", "ServerHasFinishedSending"}
       /\ b.st \in {"Closed", "AbortedFromLocal", "AbortedFromRemote"}

\* C9 - state monotonicity: every step the handler takes moves a manager's
\* completion_state forward (or leaves it): never back to Open, never out of
\* Closed or an aborted state, never from one half-close state to the other.
C9_StateMonotone ==
    [][\A p \in Peers : \A m \in Mgrs(p) :
         HandlerStep(p)
            => Forward(mgrs[p][m].completion_state, mgrs'[p][m].completion_state)]_vars

\* C10 - entry lifetime after local abort: a tube put in AbortedFromLocal by
\* Tube::abort keeps its table entry until the handler handles an AbortAck
\* frame for it, and the AbortAck call removes the entry.
C10_EntryUntilAbortAck ==
    [][\A p \in Peers : \A m \in Mgrs(p) :
         LET t == mgrs[p][m].tube_id
         IN (local_abort[p][m] # "none" /\ tube_managers[p][t] = m)
               => /\ (h[p].pc = "abortack_mgr" /\ h[p].mgr = m /\ HandlerStep(p))
                        => tube_managers'[p][t] = 0
                  /\ tube_managers'[p][t] # m
                        => (h[p].frame.type = "AbortAck" /\ h[p].mgr = m /\ HandlerStep(p))]_vars

\* neither peer's application has called Tube::abort
NoLocalAbort == \A q \in Peers : \A m \in Mgrs(q) : local_abort[q][m] = "none"

InSeq(e, q) == \E i \in 1 .. Len(q) : q[i] = e

Count(e, q) == Cardinality({i \in 1 .. Len(q) : q[i] = e})

\* the managers of peer p created for tube t
MgrsOf(p, t) == {m \in Mgrs(p) : mgrs[p][m].tube_id = t}

\* C2 - end-to-end ack delivery, the safety half: with no abort on the tube, a
\* PayloadAck that comes back to the peer that asked for it is never rejected
\* by that peer's handler (so the send completion can resolve).
C2_AckNeverRejected ==
    \A p \in Peers :
        (h[p].pc = "idle" /\ h[p].frame.type = "PayloadAck" /\ NoLocalAbort)
            => h[p].result = FullyHandled

\* the client handler has just finished the server's half-close frame of tube
\* t, the server's consumer has been handed ClientHasFinishedSending, and no
\* application has aborted
GracefulCloseDone(t) ==
    /\ h["Client"].pc = "idle"
    /\ h["Client"].frame = ServerHasFinishedSendingFrame(t)
    /\ \E sm \in MgrsOf("Server", t) :
           InSeq(ClientHasFinishedSendingEvent, delivered["Server"][sm])
    /\ NoLocalAbort

\* C4 - graceful close (S2): once the client has half-closed, the server has
\* observed ClientHasFinishedSending and half-closed in turn, and that
\* half-close has been handled by the client (no application having aborted
\* the tube), the tube is Closed on both peers and is a key of neither table.
C4_GracefulClose ==
    \A t \in TubeIds :
        GracefulCloseDone(t)
            => /\ h["Client"].result = FullyHandled
               /\ \A p \in Peers :
                    /\ tube_managers[p][t] = 0
                    /\ MgrsOf(p, t) # {}
                    /\ \A m \in MgrsOf(p, t) : mgrs[p][m].completion_state = Closed

C4_Witness ==
    \E t \in TubeIds :
        /\ GracefulCloseDone(t)
        /\ mgrs["Client"][h["Client"].mgr].completion_state = Closed
        /\ tube_managers["Client"][t] = 0

\* the client's application aborted tube t (manager cm) while it was Open, and
\* the server's application has not aborted it
ClientAbortedOpen(t, cm) ==
    /\ cm \in MgrsOf("Client", t)
    /\ local_abort["Client"][cm] = "Open"
    /\ \A sm \in Mgrs("Server") : local_abort["Server"][sm] = "none"

\* C5 - abort with ack (S3): after the client aborts an Open tube with reason
\* r (the server's application not aborting it: crossing aborts are another
\* case), the server's handle_frame call on the Abort frame returns FullyHandled
\* having enqueued exactly one Abort(r) event on the tube and written exactly
\* one frame, AbortAck(tube_id); the client's handle_frame call on that
\* AbortAck returns FullyHandled and leaves abort_pending_id_reservation
\* cleared.
C5_AbortWithAck ==
    \A t \in TubeIds : \A cm \in Mgrs("Client") :
        ClientAbortedOpen(t, cm)
            => LET r == mgrs["Client"][cm].completion_state.reason
               IN /\ (h["Server"].pc = "idle" /\ h["Server"].frame.type = "Abort")
                        => /\ h["Server"].frame = AbortFrame(t, r)
                           /\ h["Server"].result = FullyHandled
                           /\ h["Server"].wrote = <<AbortAckFrame(t)>>
                           /\ Count(AbortEvent(r), enqueued["Server"][h["Server"].mgr]) = 1
                  /\ (h["Client"].pc = "idle" /\ h["Client"].frame.type = "AbortAck")
                        => /\ h["Client"].result = FullyHandled
                           /\ ~mgrs["Client"][cm].abort_pending_id_reservation
                  /\ (h["Client"].frame.type # "AbortAck")
                        => mgrs["Client"][cm].abort_pending_id_reservation

C5_Witness ==
    \E t \in TubeIds : \E cm \in Mgrs("Client") :
        /\ ClientAbortedOpen(t, cm)
        /\ h["Client"].pc = "idle"
        /\ h["Client"].frame = AbortAckFrame(t)
        /\ h["Client"].result = FullyHandled
        /\ ~mgrs["Client"][cm].abort_pending_id_reservation
        /\ Count(AbortEvent("ApplicationError"), enqueued["Server"][1]) = 1

FramesEndedBy(pos) ==
    SubSeq(codec.frames, 1,
           Cardinality({i \in 1 .. Len(codec.frames) : codec.ends[i] <= pos}))

\* the offset of the last frame boundary at or before pos
LastEnd(pos) ==
    LET e == {0} \cup {codec.ends[i] : i \in {j \in 1 .. Len(codec.frames) : codec.ends[j] <= pos}}
    IN CHOOSE x \in e : \A y \in e : y <= x

\* C12 - codec round-trip: the encoding of one frame (of any variant), fed to
\* a fresh decoder in one call, is decoded without error into exactly that one
\* frame, and nothing is left in the decoder.
C12_RoundTrip ==
    (codec.calls = 1 /\ Len(codec.frames) = 1 /\ codec.pos = Len(codec.stream))
        => /\ codec.ok
           /\ codec.out = <<codec.frames[1]>>
           /\ codec.dec = NewDecoder

C12_Witness ==
    /\ codec.calls = 1
    /\ Len(codec.frames) = 1
    /\ codec.pos = Len(codec.stream)
    /\ codec.frames[1].type = "NewTube"
    /\ Cardinality(DOMAIN codec.frames[1].headers) = 2
    /\ codec.out = codec.frames

\* C13 - chunk-boundary independence: whatever the chunks the stream has been
\* fed in so far, the frames returned are those feeding the same bytes in one
\* call returns and the decoder is in the same state; they are exactly the
\* frames completed by the bytes fed, and the bytes after the last complete
\* frame are held in the decoder for the next feed.
C13_ChunkIndependence ==
    LET whole == decode(NewDecoder, SubSeq(codec.stream, 1, codec.pos))
    IN /\ codec.ok
       /\ whole.ok
       /\ codec.out = whole.frames
       /\ codec.dec = whole.dec
       /\ codec.out = FramesEndedBy(codec.pos)
       /\ codec.dec.buf = SubSeq(codec.stream, LastEnd(codec.pos) + 1, codec.pos)

\* two feeds or more have ended inside the second frame of the stream
C13_Witness ==
    /\ Len(codec.frames) = 2
    /\ codec.calls = 2
    /\ codec.pos > codec.ends[1] + 3
    /\ codec.pos < codec.ends[2]
    /\ codec.out = <<codec.frames[1]>>
    /\ Len(codec.dec.buf) > 3

\* the handler of p takes the step of its section pc
AtMgr(p, pc) == h[p].pc = pc /\ HandlerStep(p)

\* C14 - remote abort state: the Abort section, finding the tube neither
\* AbortedFromLocal nor AbortedFromRemote, stores AbortedFromRemote(reason),
\* appends Abort(reason) to pending_events and takes the waker.
C14_RemoteAbortState ==
    [][\A p \in Peers :
         (AtMgr(p, "abort_mgr")
            /\ mgrs[p][h[p].mgr].completion_state.st
                 \notin {"AbortedFromLocal", "AbortedFromRemote"})
           => LET old == mgrs[p][h[p].mgr]
                  new == mgrs'[p][h[p].mgr]
                  r == h[p].frame.reason
              IN /\ new.completion_state = AbortedFromRemote(r)
                 /\ new.pending_events = Append(old.pending_events, AbortEvent(r))
                 /\ ~new.waker]_vars

\* the handler of p has enqueued an Abort event on manager m, that is, it has
\* processed an Abort frame of the remote peer for that tube
RemoteAbortProcessed(p, m) ==
    \E i \in 1 .. Len(enqueued[p][m]) : enqueued[p][m][i].tag = "Abort"

\* the manager last created for tube t on peer p (0 if none)
LatestMgr(p, t) ==
    IF MgrsOf(p, t) = {} THEN 0
    ELSE CHOOSE m \in MgrsOf(p, t) : \A n \in MgrsOf(p, t) : n <= m

\* C15 - duplicate abort: an Abort frame (taken after a call that returned
\* without error) for a tube on which the handler has already processed a
\* remote Abort ends with DuplicateAbortFrame{tube_id},
\* whether the call ends at the lookup or in the manager section, and writes
\* nothing.
C15_DuplicateAbort ==
    [][\A p \in Peers :
         LET t == h'[p].frame.tube_id
         IN /\ (Took(p, "Abort") /\ ~IsErr(h[p].result) /\ LatestMgr(p, t) # 0
                  /\ RemoteAbortProcessed(p, LatestMgr(p, t)))
                 => /\ h'[p].pc \in {"idle", "abort_mgr"}
                    /\ h'[p].pc = "idle"
                         => h'[p].result = ErrTube("DuplicateAbortFrame", t)
            /\ (AtMgr(p, "abort_mgr") /\ RemoteAbortProcessed(p, h[p].mgr))
                 => /\ h'[p].pc = "idle"
                    /\ h'[p].result = ErrTube("DuplicateAbortFrame", t)
                    /\ h'[p].wrote = << >>]_vars

\* both applications have aborted tube t
CrossingAborts(t) ==
    \A p \in Peers :
        /\ MgrsOf(p, t) # {}
        /\ \A m \in MgrsOf(p, t) : local_abort[p][m] # "none"

\* C16 - crossing aborts: when both peers have aborted the tube, each handler
\* answers the other's Abort frame with one AbortAck and no Abort event, and
\* handles the AbortAck that follows without error, clearing
\* abort_pending_id_reservation; no call returns an error.
C16_CrossingAborts ==
    \A t \in TubeIds : \A p \in Peers :
        (CrossingAborts(t) /\ h[p].pc = "idle" /\ h[p].frame.type \in {"Abort", "AbortAck"})
            => /\ h[p].result = FullyHandled
               /\ h[p].frame.type = "Abort"
                    => /\ h[p].wrote = <<AbortAckFrame(t)>>
                       /\ \A m \in MgrsOf(p, t) : ~RemoteAbortProcessed(p, m)
               /\ h[p].frame.type = "AbortAck"
                    => \A m \in MgrsOf(p, t) : ~mgrs[p][m].abort_pending_id_reservation

\* C17 - AbortAck without prior abort: the AbortAck section, finding the tube
\* Open or half-closed, returns an error.
C17_AbortAckWithoutAbort ==
    [][\A p \in Peers :
         (AtMgr(p, "abortack_mgr")
            /\ mgrs[p][h[p].mgr].completion_state.st
                 \in {"Open", "ClientHasFinishedSending", "ServerHasFinishedSending"})
           => /\ h'[p].pc = "idle"
              /\ IsErr(h'[p].result)]_vars

\* C18 - Abort removes then acks: an Abort call that is not a duplicate goes
\* from the manager section to the removal, which deletes the entry before
\* anything is written; the AbortAck is then written once, with the tube_id
\* absent from the table before and after the write; a call that returns
\* FullyHandled has written exactly AbortAck(tube_id).
C18_RemoveThenAck ==
    /\ [](\A p \in Peers :
            (h[p].pc = "idle" /\ h[p].frame.type = "Abort" /\ h[p].result = FullyHandled)
                => h[p].wrote = <<AbortAckFrame(h[p].frame.tube_id)>>)
    /\ [][\A p \in Peers :
            LET t == h[p].frame.tube_id
            IN /\ (AtMgr(p, "abort_mgr") /\ h'[p].result.kind # "DuplicateAbortFrame")
                    => h'[p].pc = "abort_remove"
               /\ AtMgr(p, "abort_remove")
                    => /\ tube_managers'[p][t] = 0
                       /\ h'[p].pc = "abort_ack"
                       /\ h'[p].wrote = << >>
               /\ AtMgr(p, "abort_ack")
                    => /\ tube_managers[p][t] = 0
                       /\ tube_managers'[p][t] = 0
                       /\ h'[p].pc = "idle"
                       /\ \/ h'[p].wrote = <<AbortAckFrame(t)>>
                          \/ h'[p].result = Err("AbortAckTransmitError")]_vars

C18_Witness ==
    \E p \in Peers :
        /\ h[p].pc = "idle"
        /\ h[p].frame.type = "Abort"
        /\ h[p].result = FullyHandled
        /\ h[p].wrote = <<AbortAckFrame(h[p].frame.tube_id)>>
        /\ tube_managers[p][h[p].frame.tube_id] = 0
        /\ local_abort[p][h[p].mgr] # "none"

\* C19 - wrong-direction half-close: a client taking ClientHasFinishedSending,
\* or a server taking ServerHasFinishedSending, returns
\* InappropriateHasFinishedSendingFrameFromPeer at once, tracked tube or not,
\* and the call changes neither the table nor any manager, and writes nothing.
C19_WrongDirection ==
    [][\A p \in Peers :
         (Took(p, IF p = "Client" THEN "ClientHasFinishedSending"
                                  ELSE "ServerHasFinishedSending"))
           => /\ h'[p].pc = "idle"
              /\ h'[p].result = Err("InappropriateHasFinishedSendingFrameFromPeer")
              /\ h'[p].wrote = << >>
              /\ tube_managers' = tube_managers
              /\ mgrs' = mgrs
              /\ sink' = sink]_vars

C19_Witness ==
    \E p \in Peers :
        /\ h[p].pc = "idle"
        /\ h[p].frame.type = (IF p = "Client" THEN "ClientHasFinishedSending"
                                               ELSE "ServerHasFinishedSending")
        /\ h[p].result = Err("InappropriateHasFinishedSendingFrameFromPeer")
        /\ tube_managers[p][h[p].frame.tube_id] # 0
        /\ mgrs[p][tube_managers[p][h[p].frame.tube_id]].completion_state = Open

\* the frame types that are looked up in the table, the half-close ones from
\* the legal direction only
LookedUp(p) ==
    {"Payload", "PayloadAck", "Abort", "AbortAck",
     IF p = "Client" THEN "ServerHasFinishedSending" ELSE "ClientHasFinishedSending"}

\* C20 - untracked tube: a Payload, PayloadAck, legal half-close, Abort or
\* AbortAck frame whose tube_id is not a key of the table returns
\* UntrackedTubeId at once, writes nothing, and leaves the table and every
\* manager unchanged.
C20_UntrackedTube ==
    [][\A p \in Peers : \A ftype \in LookedUp(p) :
         (Took(p, ftype) /\ tube_managers[p][h'[p].frame.tube_id] = 0)
           => /\ h'[p].pc = "idle"
              /\ h'[p].result = ErrFrame(h'[p].frame)
              /\ h'[p].wrote = << >>
              /\ tube_managers' = tube_managers
              /\ mgrs' = mgrs
              /\ sink' = sink]_vars

\* an acked Payload was refused for a tube whose manager exists but has left
\* the table
C20_Witness ==
    \E p \in Peers :
        /\ h[p].pc = "idle"
        /\ h[p].frame.type = "Payload"
        /\ h[p].frame.ack_id # {}
        /\ h[p].result = ErrFrame(h[p].frame)
        /\ h[p].wrote = << >>
        /\ tube_managers[p][h[p].frame.tube_id] = 0
        /\ MgrsOf(p, h[p].frame.tube_id) # {}

\* C21 - PayloadAck handling: the PayloadAck section resolves the one-shot
\* under sendacks[ack_id] and changes nothing else of the manager (no event is
\* enqueued) when the ack id is a key of the tube's sendacks; when it is not,
\* the call returns UntrackedAckId{tube_id, ack_id} and no manager changes.
C21_PayloadAck ==
    [][\A p \in Peers :
         AtMgr(p, "payloadack_mgr")
           => LET m == h[p].mgr
                  f == h[p].frame
              IN /\ h'[p].pc = "idle"
                 /\ enqueued' = enqueued
                 /\ tube_managers' = tube_managers
                 /\ IF mgrs[p][m].sendacks[f.ack_id] # "absent"
                    THEN /\ h'[p].result = FullyHandled
                         /\ mgrs' = [mgrs EXCEPT ![p][m].sendacks[f.ack_id] = "resolved"]
                    ELSE /\ h'[p].result = ErrAck(f.tube_id, f.ack_id)
                         /\ mgrs' = mgrs]_vars

\* a PayloadAck resolved the one-shot of a payload the peer had sent
C21_Witness ==
    \E p \in Peers :
        /\ h[p].pc = "idle"
        /\ h[p].frame.type = "PayloadAck"
        /\ h[p].result = FullyHandled
        /\ mgrs[p][h[p].mgr].sendacks[h[p].frame.ack_id] = "resolved"

\* the handler of p is at one of its two send points, the ack of the frame in
\* progress not yet written
AckPending(p) == h[p].pc \in {"payload_ack", "abort_ack"}

\* the ack the frame in progress triggers
PendingAck(p) ==
    IF h[p].pc = "payload_ack" THEN ExpectedAck(p) ELSE AbortAckFrame(h[p].frame.tube_id)

\* C22 - ack ordering and backpressure: while the ack of the frame in progress
\* is pending, the handler takes no other inbound frame; its next step either
\* appends that ack behind everything already written on the sink (so acks
\* follow one another in the order their frames were processed) or fails the
\* call with a transmit error and writes nothing.
C22_AckOrder ==
    [][\A p \in Peers :
         AckPending(p) /\ (HandlerStep(p) \/ nframes'[p] # nframes[p])
           => /\ nframes'[p] = nframes[p]
              /\ h'[p].frame = h[p].frame
              /\ \/ /\ sink'[p] = Append(sink[p], PendingAck(p))
                    /\ h'[p].wrote = Append(h[p].wrote, PendingAck(p))
                    /\ ~IsErr(h'[p].result)
                 \/ /\ sink'[p] = sink[p]
                    /\ h'[p].wrote = h[p].wrote
                    /\ h'[p].pc = "idle"
                    /\ IsErr(h'[p].result)]_vars

\* a peer's handler processed a Payload with an ack id and then an Abort: the
\* PayloadAck lies on its sink ahead of the AbortAck
C22_Witness ==
    \E p \in Peers :
        /\ h[p].pc = "idle"
        /\ h[p].frame.type = "Abort"
        /\ \E i, j \in 1 .. Len(sink[p]) :
             /\ i < j
             /\ sink[p][i].type = "PayloadAck"
             /\ sink[p][j].type = "AbortAck"

\* the synchronous locks the handler of p holds while it runs the section it
\* is at: those it arrived with, and the one the section takes
LocksIn(p) == h[p].held \cup {section_lock(h[p].pc)}

\* C23 - lock discipline across suspension: whenever the handler waits for or
\* holds the sink lock to write a PayloadAck or an AbortAck, it holds neither
\* the table lock nor a per-tube manager lock.
C23_LockDiscipline ==
    \A p \in Peers : AckPending(p) => LocksIn(p) \cap {"table", "mgr"} = {}

\* the handler is at the AbortAck send, after the manager section and the
\* removal from the table
C23_Witness ==
    \E p \in Peers :
        /\ h[p].pc = "abort_ack"
        /\ tube_managers[p][h[p].frame.tube_id] = 0
        /\ mgrs[p][h[p].mgr].completion_state.st = "AbortedFromLocal"

\* C30 - no nested synchronous locks: in no section of a handle_frame call
\* does the handler hold the table lock and a per-tube manager lock at the
\* same time; a call that needs both takes them one after the other.
C30_NoNestedLocks ==
    \A p \in Peers : ~({"table", "mgr"} \subseteq LocksIn(p))

\* a half-close call that changed the manager to Closed under the manager lock
\* is about to take the table lock for the removal
C30_Witness ==
    \E p \in Peers :
        /\ h[p].pc \in {"chfs_remove", "shfs_remove"}
        /\ mgrs[p][h[p].mgr].completion_state = Closed
        /\ tube_managers[p][h[p].frame.tube_id] = h[p].mgr

\* no consumer is suspended on a tube whose pending_events is non-empty
NoLostWakeup ==
    \A p \in Peers : \A m \in Mgrs(p) :
        mgrs[p][m].waker => mgrs[p][m].pending_events = << >>

\* every event enqueued on a tube is eventually returned by poll_next
AllReceived ==
    \A p \in Peers : \A m \in 1 .. MaxMgrs : \A k \in 1 .. MaxFrames :
        (Len(enqueued[p][m]) >= k) ~> (Len(delivered[p][m]) >= k)

\* C24 - no lost wakeup: every step of the handler that enqueues an event on a
\* tube takes and wakes the stored waker in the same section, so no consumer
\* is ever suspended while pending_events is non-empty, and with consumers
\* scheduled fairly every enqueued event is eventually received.
C24_NoLostWakeup ==
    /\ []NoLostWakeup
    /\ [][\A p \in Peers : Appended(p) => ~mgrs'[p][h[p].mgr].waker]_vars
    /\ AllReceived

\* the handler enqueued an event on a tube whose consumer was suspended, and
\* the consumer, woken, has received it
C24_Witness ==
    \E p \in Peers : \E m \in Mgrs(p) :
        /\ delivered[p][m] # << >>
        /\ delivered[p][m] = enqueued[p][m]
        /\ mgrs[p][m].waker

\* the step is a call of transition_to
Called == state_machine'.calls = state_machine.calls + 1

\* C25 - event-tag machine, Abort: from every previous tag other than Abort,
\* transition_to of an Abort event is Valid and sets the previous tag to Abort;
\* once the previous tag is Abort, transition_to of every event is
\* Invalid(Abort, tag of the event) and the previous tag stays Abort.
C25_AbortTerminates ==
    [][Called =>
         LET prev == state_machine.prev_event_tag
             next == TubeEventTag_from(state_machine'.event)
         IN /\ (prev # "Abort" /\ next = "Abort")
                 => /\ state_machine'.result = Valid
                    /\ state_machine'.prev_event_tag = "Abort"
            /\ prev = "Abort"
                 => /\ state_machine'.result = Invalid("Abort", next)
                    /\ state_machine'.prev_event_tag = "Abort"]_vars

\* an Abort was accepted after a StreamError, and a second Abort was rejected
C25_Witness ==
    /\ state_machine.prev_event_tag = "Abort"
    /\ state_machine.result = Invalid("Abort", "Abort")
    /\ \E i \in 1 .. Len(state_machine.accepted) - 1 :
         /\ state_machine.accepted[i] = "StreamError"
         /\ state_machine.accepted[i + 1] = "Abort"

\* the events transition_to accepts as Valid when the previous tag is prev
AcceptedFrom(prev) == {ev \in TubeEvent : transition_to(prev, ev).result = Valid}

\* C26 - event-tag machine, invalid transitions: a transition_to call that
\* does not return Valid returns Invalid(prev, next) with the previous tag as
\* it was at the call and the tag of the rejected event, and leaves the
\* previous tag unchanged, so that the same events are accepted after the call
\* as before it.
C26_InvalidTransition ==
    [][Called /\ state_machine'.result # Valid =>
         /\ state_machine'.result =
              Invalid(state_machine.prev_event_tag,
                      TubeEventTag_from(state_machine'.event))
         /\ state_machine'.prev_event_tag = state_machine.prev_event_tag
         /\ state_machine'.accepted = state_machine.accepted
         /\ AcceptedFrom(state_machine'.prev_event_tag)
              = AcceptedFrom(state_machine.prev_event_tag)]_vars

\* a Payload was rejected by the fallthrough arm after a half-close
C26_Witness ==
    /\ state_machine.prev_event_tag = "ServerHasFinishedSending"
    /\ state_machine.result = Invalid("ServerHasFinishedSending", "Payload")

\* C27 - event-tag machine, no payload after half-close: among the events one
\* machine has accepted as Valid, no Payload comes after a
\* ClientHasFinishedSending.
C27_NoPayloadAfterHalfClose ==
    \A i, j \in 1 .. Len(state_machine.accepted) :
        (i < j /\ state_machine.accepted[i] = "ClientHasFinishedSending")
          => state_machine.accepted[j] # "Payload"

\* ClientHasFinishedSending was accepted and a later Payload was rejected
C27_Witness ==
    /\ \E i \in 1 .. Len(state_machine.accepted) :
         state_machine.accepted[i] = "ClientHasFinishedSending"
    /\ state_machine.prev_event_tag = "ClientHasFinishedSending"
    /\ state_machine.result = Invalid("ClientHasFinishedSending", "Payload")

\* the half-close state the frame in progress at p declares, the opposite one,
\* and the event of the frame
FrameHalf(p) ==
    IF h[p].frame.type = "ClientHasFinishedSending"
    THEN ClientHasFinishedSending ELSE ServerHasFinishedSending

OppositeHalf(p) ==
    IF h[p].frame.type = "ClientHasFinishedSending"
    THEN ServerHasFinishedSending ELSE ClientHasFinishedSending

FrameHalfEvent(p) ==
    IF h[p].frame.type = "ClientHasFinishedSending"
    THEN ClientHasFinishedSendingEvent ELSE ServerHasFinishedSendingEvent

\* C28 - silent close: the manager section of a half-close frame that finds
\* the tube in the opposite half-close state sets Closed, clears the waker,
\* leaves pending_events as it was and goes on to the removal, which deletes
\* the table entry; the section appends an event only when it finds the tube
\* Open, and then the frame's own half-close event, with the frame's
\* half-close state as the new state.
C28_SilentClose ==
    [][\A p \in Peers :
         /\ (AtMgr(p, "chfs_mgr") \/ AtMgr(p, "shfs_mgr"))
              => LET old == mgrs[p][h[p].mgr]
                     new == mgrs'[p][h[p].mgr]
                 IN /\ old.completion_state = OppositeHalf(p)
                         => /\ new.completion_state = Closed
                            /\ new.pending_events = old.pending_events
                            /\ ~new.waker
                            /\ enqueued' = enqueued
                            /\ h'[p].pc \in {"chfs_remove", "shfs_remove"}
                    /\ new.pending_events # old.pending_events
                         => /\ old.completion_state = Open
                            /\ new.completion_state = FrameHalf(p)
                            /\ new.pending_events
                                 = Append(old.pending_events, FrameHalfEvent(p))
         /\ (AtMgr(p, "chfs_remove") \/ AtMgr(p, "shfs_remove"))
              => /\ tube_managers'[p][h[p].frame.tube_id] = 0
                 /\ h'[p].result = FullyHandled
                 /\ mgrs' = mgrs]_vars

\* a half-close frame closed a tube its own application had half-closed: the
\* entry is gone and no event was ever enqueued on the tube
C28_Witness ==
    \E p \in Peers :
        /\ h[p].pc = "idle"
        /\ h[p].frame.type \in {"ClientHasFinishedSending", "ServerHasFinishedSending"}
        /\ h[p].result = FullyHandled
        /\ h[p].mgr # 0
        /\ mgrs[p][h[p].mgr].completion_state = Closed
        /\ tube_managers[p][h[p].frame.tube_id] = 0
        /\ enqueued[p][h[p].mgr] = << >>

\* C29 - failed payload ack: taking a Payload frame changes neither the table
\* nor any manager, and when the send of its PayloadAck fails (the step at the
\* send point writes nothing) the call returns PayloadAckTransmitError there:
\* no event is enqueued, and the managers (pending_events, completion_state,
\* waker) and the table are as they were.
C29_FailedPayloadAck ==
    [][\A p \in Peers :
         /\ Took(p, "Payload") => mgrs' = mgrs /\ tube_managers' = tube_managers
         /\ (AtMgr(p, "payload_ack") /\ h'[p].wrote = h[p].wrote)
              => /\ h'[p].pc = "idle"
                 /\ h'[p].result = Err("PayloadAckTransmitError")
                 /\ mgrs' = mgrs
                 /\ tube_managers' = tube_managers
                 /\ enqueued' = enqueued
                 /\ delivered' = delivered]_vars

\* a Payload call failed on its ack: nothing was written and the tube, still
\* in the table, never had an event enqueued
C29_Witness ==
    \E p \in Peers :
        /\ h[p].pc = "idle"
        /\ h[p].frame.type = "Payload"
        /\ h[p].result = Err("PayloadAckTransmitError")
        /\ h[p].wrote = << >>
        /\ tube_managers[p][h[p].frame.tube_id] = h[p].mgr
        /\ enqueued[p][h[p].mgr] = << >>
        /\ mgrs[p][h[p].mgr].pending_events = << >>

====
